---- MODULE Spec2Model ----
(***************************************************************************)
(* A model of MarmaladeHttpUtils: the HttpClient dispatcher (app thread),  *)
(* its pool of worker threads, and the HttpRequest lifecycle.              *)
(*                                                                         *)
(* Threads.  The app thread runs QueueRequest, Cancel, Update and the      *)
(* destructor.  Each worker owns one native thread running                 *)
(* HttpClient_WorkerThread.  The sections a thread runs with wakeMutex     *)
(* held are single steps of the model; pthread_cond_wait returns only      *)
(* after a pthread_cond_signal that found the thread waiting, and          *)
(* pthread_cond_timedwait also returns at its timeout.                     *)
(*                                                                         *)
(* IwAssert is compiled out of release builds and can be continued past in *)
(* debug builds: a failed assertion is recorded in assertFailed and the    *)
(* code after it runs.                                                     *)
(***************************************************************************)
EXTENDS Integers, Sequences, FiniteSets, TLC

\* ---------------------------------------------------------------- bounds
MaxWorkers == 2      \* numWorkers is drawn from 1..MaxWorkers
NumRequests == 2     \* HttpRequest objects the application creates
MaxQueued == 2       \* QueueRequest calls in one run
MaxHeaders == 0      \* "key: value" header lines of one response
MaxBody == 1         \* body bytes of one response
MaxUrls == 2         \* distinct urls given to HttpDownloader::DownloadFile
MaxJson == 3         \* bytes in a response body handed to HttpPost::HandleResponse
MaxValue == 2        \* bytes in a string handed to HttpRequest::UrlEncode
MaxUpload == 1       \* bytes in the compiled body of an HttpPost (m_postData)
MaxPostData == 3     \* bytes in a body whose Worker_HandleUpload calls are studied
MaxFill == 4         \* the largest buffer handed to Worker_HandleUpload
MaxCalls == 4        \* Worker_HandleUpload calls studied on one body

Workers == 0 .. (MaxWorkers - 1)
Requests == 1 .. NumRequests
CbIds == 1 .. MaxQueued
None == 0            \* nullptr

Kinds == {"Download", "Post", "Put"}
Bytes == {"{"}                       \* response bytes: "{" opens a JSON text
\* The bytes of the bodies HttpPost::HandleResponse is studied on: the
\* structural characters, a digit, and a character no JSON token starts with.
JsonBytes == {"{", "}", "[", "]", ",", "1", "x"}
JsonTexts == UNION { [1 .. n -> JsonBytes] : n \in 0 .. MaxJson }
ServerCodes == {200, 404}            \* the status codes the server answers with
InterimCodes == {100}                \* "100 Continue", sent ahead of the answer
\* The header lines the transport engine hands to the header callback: the
\* status line "HTTP/1.1 <code> ...", "K: v" lines, and the empty line.
StatusLines == { [header |-> "HTTP", value |-> c] : c \in ServerCodes \cup InterimCodes }
\* A success other than 200 ("204 No Content"), for the servers that send it.
OtherCodes == {204}
OtherStatusLines == { [header |-> "HTTP", value |-> c] : c \in OtherCodes }
KeyLines == { [header |-> "K", value |-> 1] }
EndLine == [header |-> "", value |-> 0]
CURLE_OK == "CURLE_OK"
CURLE_ERR == "CURLE_ERR"             \* any CURLcode other than CURLE_OK
NoFile == <<"nofile">>               \* a path with no file behind it

VARIABLES
    NUM_WORKERS,            \* HttpClient::NUM_WORKERS
    client,                 \* "alive", "destroying" (inside ~HttpClient), "destroyed"
    tdIndex, tdPhase,       \* ~HttpClient: loop index i and "check" / "join"
    m_pendingRequests,      \* HttpClient::m_pendingRequests
    m_pendingCallbacks,     \* HttpClient::m_pendingCallbacks: sequence of [req, cb]
    m_status,               \* HttpRequest::m_status
    m_responseHeaders,      \* HttpRequest::m_responseHeaders (set of header names)
    m_workerResponseBuffer, \* HttpPost::m_workerResponseBuffer / m_workerResponseSize
    tmpFile, destFile,      \* the files <dest>.tmp and <dest> of an HttpDownload
    status,                 \* HttpClient_Worker::status
    pRequest,               \* HttpClient_Worker::pRequest
    cancelAndQuit,          \* HttpClient_Worker::cancelAndQuit
    responseHeadersDone,    \* HttpClient_Worker::responseHeadersDone
    pResponseHeaders,       \* HttpClient_Worker::pResponseHeaders (newest first)
    result,                 \* HttpClient_Worker::result
    responseStatusCode,     \* HttpClient_Worker::responseStatusCode
    thread,                 \* where each worker thread is in HttpClient_WorkerThread
    woken,                  \* a signal reached the thread in its DONE wait
    curl,                   \* the transport engine's transfer: [phase, code, nbody]
    cbInfo,                 \* per callback object: [req, watcher]
    \* ---- history, not read by the program
    statusLog,              \* every value assigned to m_status, in order
    callCount,              \* delegate invocations per callback object
    queueLog,               \* requests in the order QueueRequest pushed them
    startLog,               \* requests in the order HandleRequestStart ran
    assertFailed,           \* an IwAssert condition was false
    idleAtTeardown,         \* ~HttpClient began with nothing queued or assigned
    \* ---- HttpDownloader
    kind,                   \* the class of each request object
    m_url,                  \* HttpRequest::m_url of the requests DownloadFile made
    m_activeDownloads,      \* HttpDownloader::m_activeDownloads: url -> request
    returned,               \* what the last DownloadFile call was given and returned
    \* ---- HttpRequest::UrlEncode
    enc,                    \* a call of UrlEncode: its arguments, the build, its result
    m_bytesUploaded,        \* HttpPost::m_bytesUploaded, by request
    m_progress,             \* m_downloadBytesNow and m_uploadBytesNow, by request
    post                    \* an HttpPost under Worker_HandleUpload calls: body, offset, what came out

vars == << NUM_WORKERS, client, tdIndex, tdPhase, m_pendingRequests,
           m_pendingCallbacks, m_status, m_responseHeaders,
           m_workerResponseBuffer, tmpFile, destFile,
           status, pRequest, cancelAndQuit, responseHeadersDone,
           pResponseHeaders, result, responseStatusCode, thread, woken, curl,
           cbInfo, statusLog, callCount, queueLog, startLog, assertFailed,
           idleAtTeardown, kind, enc, post, m_bytesUploaded, m_progress, m_url, m_activeDownloads, returned >>

appVars == << NUM_WORKERS, client, tdIndex, tdPhase, m_pendingRequests,
              m_pendingCallbacks, cbInfo, callCount, queueLog, startLog,
              idleAtTeardown, kind, enc, post, m_bytesUploaded, m_progress, m_url, m_activeDownloads, returned >>
requestVars == << m_status, statusLog, m_responseHeaders,
                  m_workerResponseBuffer, tmpFile, destFile >>
workerVars == << status, pRequest, cancelAndQuit, responseHeadersDone,
                 pResponseHeaders, result, responseStatusCode, thread, woken,
                 curl >>

\* The class of each request the application creates: HttpPost and
\* HttpDownload objects in turn.
AppRequests == [r \in Requests |-> IF r % 2 = 1 THEN "Post" ELSE "Download"]
\* The requests HttpDownloader::DownloadFile creates (HttpDownloader.h:20)
DownloaderRequests == [r \in Requests |-> "Download"]
\* An application that uploads: YoutubeUploadRequest (a PUT) and HttpPost
\* objects in turn.
UploadRequests == [r \in Requests |-> IF r % 2 = 1 THEN "Put" ELSE "Post"]

\* HttpRequest::GetMethod: the method each class hands to HttpRequest's
\* constructor.
GetMethod(r) == IF kind[r] = "Post" THEN "POST"
                ELSE IF kind[r] = "Put" THEN "PUT" ELSE "GET"

Urls == 1 .. MaxUrls
NoCall == [url |-> None, request |-> None, created |-> FALSE]

Pool == { w \in Workers : w < NUM_WORKERS }

\* ------------------------------------------------------------ HttpRequest
\* HttpRequest::HttpRequest leaves BUILDING; HttpDownload::HttpDownload then
\* sets PENDING itself.
InitialStatusLog(k) ==
    IF k = "Download" THEN << "BUILDING", "PENDING" >> ELSE << "BUILDING" >>

Last(s) == s[Len(s)]

\* HttpRequest::Cancel: the status Cancel() leaves behind.
CancelStatusMut(s) == IF s \in {"PENDING", "SENDING"} THEN "CANCELLED" ELSE s
CancelStatus(s) == IF s = "PENDING" THEN "CANCELLED" ELSE s

\* An assignment to m_status inside a handler working on the record st.
SetStatus(st, r, s) ==
    [st EXCEPT !.ms[r] = s, !.log[r] = Append(@, s)]

Check(st, cond, name) ==
    IF cond THEN st ELSE [st EXCEPT !.af = @ \cup {name}]

\* HttpRequest::HandleRequestStart
HandleRequestStart(st, r) ==
    SetStatus(Check(st, st.ms[r] = "PENDING", "HandleRequestStart"), r, "SENDING")

\* m_responseHeaders[h] = v on a std::map held as a set of [header, value]
MapPut(m, h, v) == { e \in m : e.header # h } \cup { [header |-> h, value |-> v] }

\* HandleResponseHeaders, line 78: the loop over the RH list
RECURSIVE CopyHeaders(_, _)
CopyHeaders(m, list) ==
    IF list = << >> THEN m
    ELSE CopyHeaders(MapPut(m, Head(list).header, Head(list).value), Tail(list))

HandleResponseHeadersMut(st, r, pFirstHeader) == st

\* HttpRequest::HandleResponseHeaders
HandleResponseHeaders(st, r, pFirstHeader) ==
    LET a == Check(st, st.ms[r] = "SENDING", "HandleResponseHeaders")
        b == SetStatus(a, r, "HEADERS")
    IN  [b EXCEPT !.rh[r] = CopyHeaders(@, pFirstHeader)]

\* What a json::Exception leaves in place of the tokens still to read.
Fail == << "fail" >>

\* json::Reader::Scan on a text over JsonBytes: one token per structural
\* character, one TOKEN_NUMBER ("N") per run of digits (MatchNumber), and a
\* ScanException on any other character.
RECURSIVE Scan(_)
Scan(text) ==
    IF text = << >> THEN << >>
    ELSE IF Head(text) = "x" THEN Fail
    ELSE LET rest == Scan(Tail(text)) IN
         IF rest = Fail THEN Fail
         ELSE IF Head(text) = "1"
         THEN IF Len(text) > 1 /\ text[2] = "1" THEN rest ELSE << "N" >> \o rest
         ELSE << Head(text) >> \o rest

\* json::Reader::MatchExpectedToken: the tokens left after the expected one
MatchExpectedToken(nExpected, ts) ==
    IF ts # << >> /\ Head(ts) = nExpected THEN Tail(ts) ELSE Fail

\* json::Reader::Parse(UnknownElement&), Parse(Object&), Parse(Array&) and
\* Parse(Number&): the tokens left after one element.  A member of an object
\* starts with a TOKEN_STRING, which no text over JsonBytes holds.
RECURSIVE Parse(_)
RECURSIVE ParseArrayElements(_)
ParseObject(ts) ==
    LET rest == Tail(ts) IN
    IF rest # << >> /\ Head(rest) # "}"
    THEN Fail
    ELSE MatchExpectedToken("}", rest)

ParseArrayElements(ts) ==
    LET rest == Parse(ts) IN
    IF rest = Fail THEN Fail
    ELSE IF rest # << >> /\ Head(rest) = ","
    THEN ParseArrayElements(Tail(rest))
    ELSE MatchExpectedToken("]", rest)

ParseArray(ts) ==
    LET rest == Tail(ts) IN
    IF rest # << >> /\ Head(rest) # "]"
    THEN ParseArrayElements(rest)
    ELSE MatchExpectedToken("]", rest)

Parse(ts) ==
    IF ts = << >> THEN Fail
    ELSE IF Head(ts) = "{" THEN ParseObject(ts)
    ELSE IF Head(ts) = "[" THEN ParseArray(ts)
    ELSE IF Head(ts) = "N" THEN Tail(ts)
    ELSE Fail

\* json::Reader::Read (Read_i): Scan, Parse, and nothing left after the
\* element; TRUE when no json::Exception is thrown.
ParsesAsJson(text) ==
    LET tokens == Scan(text) IN
    tokens # Fail /\ Parse(tokens) = << >>

LooksLikeJsonMut(text) == text # << >>
LooksLikeJson(text) == text # << >> /\ text[1] \in {"{", "["}

\* HttpRequest::HandleResponse
BaseHandleResponse(st, r, success) ==
    SetStatus(Check(st, st.ms[r] = "HEADERS", "HandleResponse"), r,
              IF success THEN "DONE" ELSE "ERROR")

\* HttpPost::HandleResponse (YoutubeUploadRequest::HandleResponse is the
\* same text)
PostHandleResponse(st, r, success, response) ==
    LET a == BaseHandleResponse(st, r, success)
    IN  IF success /\ LooksLikeJson(response) /\ ~ParsesAsJson(response)
        THEN SetStatus(a, r, "ERROR")
        ELSE a

\* the virtual call pRequest->HandleResponse(success, httpStatusCode)
HandleResponse(st, r, success) ==
    IF kind[r] \in {"Post", "Put"}
    THEN PostHandleResponse(st, r, success, m_workerResponseBuffer[r])
    ELSE BaseHandleResponse(st, r, success)

\* -------------------------------------------------------------- HttpClient
\* A worker's transport session: the transfer it performs, and the read
\* function it keeps from one transfer to the next ("fread", the engine's
\* own, after curl_easy_init).
IdleTransfer == [phase |-> "idle", code |-> 0, nbody |-> 0, readfunction |-> "fread"]

\* ------------------------------------------------- HttpRequest::UrlEncode
\* Strings are sequences of byte values 0 .. 255.  The bytes the encoder is
\* studied on: 'a' 'Z' '0', '-' '_' '.', ' ', '&' '/', a line feed, and two
\* bytes above 127; "a b&c" is the example of HttpRequest.h line 99.
EncBytes == {97, 90, 48, 45, 95, 46, 32, 38, 47, 10, 233, 255}
ExampleValue == << 97, 32, 98, 38, 99 >>
EncValues == UNION { [1 .. n -> EncBytes] : n \in 0 .. MaxValue } \cup { ExampleValue }

\* What the build decides: whether char is signed, and what isalnum answers
\* for a negative argument, for which its behaviour is undefined.
Builds == { [charSigned |-> FALSE, alnumNegative |-> FALSE],
            [charSigned |-> TRUE, alnumNegative |-> FALSE],
            [charSigned |-> TRUE, alnumNegative |-> TRUE] }

NoEncoding == [value |-> << >>, strict |-> TRUE, build |-> CHOOSE b \in Builds : ~b.charSigned,
               called |-> FALSE, escaped |-> << >>]

\* const char c = (*i): the value of the char holding byte b
CharValue(b, build) == IF build.charSigned /\ b > 127 THEN b - 256 ELSE b

\* isalnum(c) in the "C" locale
IsAlnum(c, build) ==
    IF c < 0 THEN build.alnumNegative
    ELSE c \in (48 .. 57) \cup (65 .. 90) \cup (97 .. 122)

\* operator<< of an int under std::hex: the digits of the value as an
\* unsigned int, lower case, no leading zeros; a negative 32-bit int i in
\* -128 .. -1 is 0xFFFFFF00 + (i + 256)
HexDigit(d) == IF d < 10 THEN 48 + d ELSE 97 + (d - 10)
RECURSIVE HexDigits(_)
HexDigits(n) ==
    IF n < 16 THEN << HexDigit(n) >>
    ELSE Append(HexDigits(n \div 16), HexDigit(n % 16))
HexOfInt(i) ==
    IF i < 0
    THEN << 102, 102, 102, 102, 102, 102 >> \o HexDigits(i + 256)
    ELSE HexDigits(i)

\* std::setw(2) with fill('0')
SetW2(digits) == IF Len(digits) < 2 THEN << 48 >> \o digits ELSE digits

\* lines 28-31: the tests that copy '-', '_', '.' and turn ' ' into '+'
CopiedPunctuation(c, strict) == c \in {45, 95, 46} /\ ~strict
PlusForSpaceMut(c, strict) == c = 32
PlusForSpace(c, strict) == c = 32 /\ ~strict

\* lines 25-34: what one char adds to the stream
EncodeChar(c, strict, build) ==
    IF IsAlnum(c, build) THEN << IF c < 0 THEN c + 256 ELSE c >>
    ELSE IF CopiedPunctuation(c, strict) THEN << c >>
    ELSE IF PlusForSpace(c, strict) THEN << 43 >>
    ELSE << 37 >> \o SetW2(HexOfInt(c))

\* HttpRequest::UrlEncode
RECURSIVE UrlEncode(_, _, _)
UrlEncode(value, strict, build) ==
    IF value = << >> THEN << >>
    ELSE EncodeChar(CharValue(Head(value), build), strict, build)
             \o UrlEncode(Tail(value), strict, build)

\* HttpPost::HttpPost: no body yet, m_bytesUploaded(0); nothing handed out.
NoPost == [m_postData |-> << >>, m_bytesUploaded |-> 0, out |-> << >>,
           calls |-> 0, fillSize |-> 0, offset |-> 0, ncopy |-> 0]

\* HttpRequest's constructor initialises m_status, m_method and m_url only:
\* the progress members hold whatever the memory held until the first
\* Worker_UpdateProgress.  Indeterminate stands for that content (the totals
\* are not kept: nothing in the client reads any of the four).
Indeterminate == -1
NoProgress == [dlnow |-> Indeterminate, ulnow |-> Indeterminate]

InitWith(classes) ==
    /\ kind = classes
    /\ m_bytesUploaded = [r \in Requests |-> 0]
    /\ m_progress = [r \in Requests |-> NoProgress]
    /\ m_url = [r \in Requests |-> None]
    /\ m_activeDownloads = [u \in Urls |-> None]
    /\ returned = NoCall
    /\ NUM_WORKERS \in 1 .. MaxWorkers
    /\ client = "alive"
    /\ tdIndex = 0
    /\ tdPhase = "check"
    /\ m_pendingRequests = << >>
    /\ m_pendingCallbacks = << >>
    /\ m_status = [r \in Requests |-> Last(InitialStatusLog(kind[r]))]
    /\ statusLog = [r \in Requests |-> InitialStatusLog(kind[r])]
    /\ m_responseHeaders = [r \in Requests |-> {}]
    /\ m_workerResponseBuffer = [r \in Requests |-> << >>]
    /\ tmpFile = [r \in Requests |-> NoFile]
    /\ destFile = [r \in Requests |-> NoFile]
    /\ status = [w \in Workers |-> "UNUSED"]
    /\ pRequest = [w \in Workers |-> None]
    /\ cancelAndQuit = [w \in Workers |-> FALSE]
    /\ responseHeadersDone = [w \in Workers |-> FALSE]
    /\ pResponseHeaders = [w \in Workers |-> << >>]
    /\ result = [w \in Workers |-> CURLE_OK]
    /\ responseStatusCode = [w \in Workers |-> 0]
    /\ thread = [w \in Workers |-> "none"]
    /\ woken = [w \in Workers |-> FALSE]
    /\ curl = [w \in Workers |-> IdleTransfer]
    /\ cbInfo = [c \in CbIds |-> [req |-> None, watcher |-> "null"]]
    /\ callCount = [c \in CbIds |-> 0]
    /\ queueLog = << >>
    /\ startLog = << >>
    /\ assertFailed = {}
    /\ idleAtTeardown = FALSE

\* An HttpClient and the requests the application makes for it.
Init == InitWith(AppRequests) /\ enc = NoEncoding /\ post = NoPost

\* An HttpPost whose transfer a worker has just finished (the thread waits
\* in DONE), for every outcome of the transfer and every body over JsonBytes.
PostInit ==
    /\ kind = AppRequests
    /\ post = NoPost
    /\ m_bytesUploaded = [r \in Requests |-> 0]
    /\ m_progress = [r \in Requests |-> NoProgress]
    /\ enc = NoEncoding
    /\ m_url = [r \in Requests |-> None]
    /\ m_activeDownloads = [u \in Urls |-> None]
    /\ returned = NoCall
    /\ NUM_WORKERS \in 1 .. MaxWorkers
    /\ client = "alive"
    /\ tdIndex = 0
    /\ tdPhase = "check"
    /\ m_pendingRequests = << >>
    /\ m_pendingCallbacks = << >>
    /\ m_status = [r \in Requests |-> IF kind[r] = "Post" THEN "SENDING" ELSE "PENDING"]
    /\ statusLog = [r \in Requests |->
                        IF kind[r] = "Post"
                        THEN << "BUILDING", "PENDING", "SENDING" >>
                        ELSE InitialStatusLog(kind[r])]
    /\ m_responseHeaders = [r \in Requests |-> {}]
    /\ \E text \in JsonTexts :
           m_workerResponseBuffer = [r \in Requests |->
                                        IF kind[r] = "Post" THEN text ELSE << >>]
    /\ tmpFile = [r \in Requests |-> NoFile]
    /\ destFile = [r \in Requests |-> NoFile]
    /\ status = [w \in Workers |-> IF w = 0 THEN "DONE" ELSE "UNUSED"]
    /\ pRequest = [w \in Workers |-> IF w = 0 THEN 1 ELSE None]
    /\ cancelAndQuit = [w \in Workers |-> FALSE]
    /\ responseHeadersDone = [w \in Workers |-> w = 0]
    /\ \E res \in {CURLE_OK, CURLE_ERR}, code \in ServerCodes :
           /\ result = [w \in Workers |-> IF w = 0 THEN res ELSE CURLE_OK]
           /\ responseStatusCode = [w \in Workers |-> IF w = 0 THEN code ELSE 0]
           /\ pResponseHeaders = [w \in Workers |->
                                     IF w = 0 THEN << [header |-> "HTTP", value |-> code] >>
                                     ELSE << >>]
    /\ thread = [w \in Workers |-> IF w = 0 THEN "waitDone" ELSE "none"]
    /\ woken = [w \in Workers |-> FALSE]
    /\ curl = [w \in Workers |-> IdleTransfer]
    /\ cbInfo = [c \in CbIds |-> [req |-> None, watcher |-> "null"]]
    /\ callCount = [c \in CbIds |-> 0]
    /\ queueLog = << 1 >>
    /\ startLog = << 1 >>
    /\ assertFailed = {}
    /\ idleAtTeardown = FALSE

\* The handlers below work on a record of the fields they may write.
Snapshot ==
    [ms |-> m_status, log |-> statusLog, rh |-> m_responseHeaders,
     cbs |-> m_pendingCallbacks, calls |-> callCount, q |-> m_pendingRequests,
     ws |-> status, pr |-> pRequest, wk |-> woken, th |-> thread,
     sl |-> startLog, af |-> assertFailed, ad |-> m_activeDownloads,
     free |-> None, found |-> FALSE]

Commit(st) ==
    /\ m_status' = st.ms
    /\ statusLog' = st.log
    /\ m_responseHeaders' = st.rh
    /\ m_pendingCallbacks' = st.cbs
    /\ callCount' = st.calls
    /\ m_pendingRequests' = st.q
    /\ status' = st.ws
    /\ pRequest' = st.pr
    /\ woken' = st.wk
    /\ thread' = st.th
    /\ startLog' = st.sl
    /\ assertFailed' = st.af
    /\ m_activeDownloads' = st.ad

\* HttpRequest::CompileRequest (HttpPost::CompileRequest ends in it)
CompileRequest(st, r) ==
    SetStatus(Check(st, st.ms[r] = "BUILDING", "CompileRequest"), r, "PENDING")

\* HttpClient::QueueRequest, lines 79-84.  cbKind: "null" (no callback),
\* "alive" (an HttpCallback whose watcher is alive; an HttpStaticCallback is
\* one whose watcher never dies) or "downloader" (the HttpCallback bound to
\* HttpDownloader::HandleDownloadDone).
QueueEffect(r, cbKind) ==
       LET a == IF m_status[r] = "BUILDING"
                THEN CompileRequest(Snapshot, r) ELSE Snapshot
           b == Check(a, a.ms[r] = "PENDING", "QueueRequest")
           id == Len(queueLog) + 1
       IN  /\ m_status' = b.ms
           /\ statusLog' = b.log
           /\ assertFailed' = b.af
           /\ m_pendingRequests' = Append(m_pendingRequests, r)
           /\ IF cbKind # "null"
              THEN /\ m_pendingCallbacks' =
                          Append(m_pendingCallbacks, [req |-> r, cb |-> id])
                   /\ cbInfo' = [cbInfo EXCEPT ![id] = [req |-> r, watcher |-> cbKind]]
              ELSE UNCHANGED << m_pendingCallbacks, cbInfo >>
           /\ queueLog' = Append(queueLog, r)

\* The application calls HttpClient::QueueRequest.
QueueRequest(r, cbKind) ==
    /\ client = "alive"
    /\ Len(queueLog) < MaxQueued
    /\ m_status[r] \in {"BUILDING", "PENDING"}
    /\ QueueEffect(r, cbKind)
    /\ UNCHANGED << m_activeDownloads, returned >>
    /\ UNCHANGED << NUM_WORKERS, client, tdIndex, tdPhase, callCount,
                    startLog, idleAtTeardown, m_responseHeaders,
                    m_workerResponseBuffer, tmpFile, destFile, kind, enc, post, m_bytesUploaded, m_progress, m_url >>
    /\ UNCHANGED workerVars

\* HttpRequest::Cancel, called by the application on a request it holds.
Cancel(r) ==
    /\ client # "destroying"
    /\ m_status' = [m_status EXCEPT ![r] = CancelStatus(@)]
    /\ statusLog' = IF m_status'[r] # m_status[r]
                    THEN [statusLog EXCEPT ![r] = Append(@, m_status'[r])]
                    ELSE statusLog
    /\ UNCHANGED << m_responseHeaders,
                    m_workerResponseBuffer, tmpFile, destFile, assertFailed >>
    /\ UNCHANGED appVars
    /\ UNCHANGED workerVars

\* The watcher an HttpCallback observes is deleted: its ObservingPtr goes null.
\* (The callback object itself lives as long as m_pendingCallbacks holds it.)
WatcherDies(c) ==
    /\ client # "destroying"
    /\ cbInfo[c].watcher = "alive"
    /\ \E i \in DOMAIN m_pendingCallbacks : m_pendingCallbacks[i].cb = c
    /\ cbInfo' = [cbInfo EXCEPT ![c].watcher = "dead"]
    /\ UNCHANGED << NUM_WORKERS, client, tdIndex, tdPhase, m_pendingRequests,
                    m_pendingCallbacks, callCount, queueLog, startLog,
                    assertFailed,
                    idleAtTeardown, kind, enc, post, m_bytesUploaded, m_progress, m_url, m_activeDownloads, returned >>
    /\ UNCHANGED requestVars
    /\ UNCHANGED workerVars

\* The positions at which a worker thread rests with its wakeMutex locked.
\* Between lock and pthread_cond_wait (lines 184-186) and between lock and
\* the first timed wait (198-204) the thread only writes status; the waits
\* themselves release the mutex; after the timed wait returns the thread
\* calls s3eDeviceYield with the mutex held (line 207).
HoldsWakeMutexMut(t) == t \in {"yieldReady", "waitReady"}
HoldsWakeMutex(t) == t = "yieldReady"

\* HttpClient_Worker::WakeToStatus: the signal wakes a thread in its DONE wait
\* (a thread in the READY timed wait re-reads status by itself).
WakeToStatus(st, w, sc) ==
    [st EXCEPT !.ws[w] = sc, !.wk[w] = @ \/ (st.th[w] = "waitDone")]

\* Update, line 282
SuccessMut(res, code) == res = CURLE_OK
Success(res, code) == res = CURLE_OK /\ code < 400

\* Update, line 286: the pairs whose callback is called for request r
CallbackMatchesMut(pairReq, r) == TRUE
CallbackMatches(pairReq, r) == pairReq = r

\* HttpCallback::Call / HttpStaticCallback::Call: the delegate runs unless the
\* watcher is gone.
Invokes(c) == cbInfo[c].watcher # "dead"

\* HttpDownloader::HandleDownloadDone: the first entry of the map (in key
\* order) that holds the request is erased.
HandleDownloadDone(ad, p_request) ==
    LET hits == { u \in Urls : ad[u] = p_request }
    IN  IF hits = {} THEN ad
        ELSE [ad EXCEPT ![CHOOSE u \in hits : \A v \in hits : u <= v] = None]

\* Update, lines 285-292.  The delegate of a downloader's callback is
\* HandleDownloadDone; DownloadFile makes one such callback per request.
CallCallbacks(st, r) ==
    LET hit == { st.cbs[i].cb : i \in { j \in DOMAIN st.cbs :
                                        CallbackMatches(st.cbs[j].req, r) } }
        keep(p) == ~CallbackMatches(p.req, r)
        called == { c \in hit : Invokes(c) }
    IN  [st EXCEPT !.calls = [c \in CbIds |->
                                 IF c \in called THEN @[c] + 1 ELSE @[c]],
                   !.cbs = SelectSeq(@, keep),
                   !.ad = IF \E c \in called : cbInfo[c].watcher = "downloader"
                          THEN HandleDownloadDone(@, r) ELSE @]

UpdateWorkerMut(st, i) ==
    LET r == st.pr[i] IN
    IF st.ws[i] = "ACTIVE" THEN
        IF st.ms[r] = "SENDING" /\ responseHeadersDone[i]
        THEN HandleResponseHeaders(st, r, pResponseHeaders[i])
        ELSE st
    ELSE IF st.ws[i] = "DONE" THEN
        LET a == IF st.ms[r] = "SENDING"
                 THEN HandleResponseHeaders(st, r, pResponseHeaders[i]) ELSE st
            b == HandleResponse(a, r, Success(result[i], responseStatusCode[i]))
            c == CallCallbacks(b, r)
        IN  [WakeToStatus(c, i, "CLEANUP") EXCEPT !.pr[i] = None]
    ELSE IF st.ws[i] = "CLEANUP" THEN st
    ELSE [st EXCEPT !.free = IF st.found THEN @ ELSE i,
                    !.found = TRUE,
                    !.pr[i] = None]

\* Update, lines 268-303: one pass of the loop body for worker i
UpdateWorker(st, i) ==
    LET r == st.pr[i] IN
    IF st.ws[i] = "ACTIVE" THEN
        IF st.ms[r] = "SENDING" /\ responseHeadersDone[i]
        THEN HandleResponseHeaders(st, r, pResponseHeaders[i])
        ELSE st
    ELSE IF st.ws[i] = "DONE" THEN
        LET a == IF st.ms[r] = "SENDING"
                 THEN HandleResponseHeaders(st, r, pResponseHeaders[i]) ELSE st
            b == HandleResponse(a, r, Success(result[i], responseStatusCode[i]))
            c == CallCallbacks(b, r)
        IN  WakeToStatus(c, i, "CLEANUP")
    ELSE IF st.ws[i] = "CLEANUP" THEN st
    ELSE [st EXCEPT !.free = IF st.found THEN @ ELSE i,
                    !.found = TRUE,
                    !.pr[i] = None]

RECURSIVE UpdateLoop(_, _)
UpdateLoop(st, i) ==
    IF i >= NUM_WORKERS THEN st ELSE UpdateLoop(UpdateWorker(st, i), i + 1)

\* Update, lines 307-308: front() and pop() on the queue
TakeRequestMut(q) == [p_request |-> q[Len(q)], rest |-> SubSeq(q, 1, Len(q) - 1)]
TakeRequest(q) == [p_request |-> Head(q), rest |-> Tail(q)]

\* Update, line 309
CanStartMut(s) == TRUE
CanStart(s) == s = "PENDING"

\* Update, lines 313-336: spawnOk is the outcome of pthread_create
StartWorker(st, w, spawnOk) ==
    IF st.ws[w] = "UNUSED" THEN
        IF spawnOk
        THEN [st EXCEPT !.ws[w] = "ACTIVE", !.th[w] = "top"]
        ELSE [st EXCEPT !.ws[w] = "DONE"]
    ELSE WakeToStatus(Check(st, st.ws[w] = "READY", "Update.READY"), w, "ACTIVE")

\* Update, lines 306-341
Dispatch(st, spawnOk) ==
    IF st.found /\ st.q # << >> THEN
        LET p_request == TakeRequest(st.q).p_request
            a == [st EXCEPT !.q = TakeRequest(st.q).rest]
        IN  IF CanStart(a.ms[p_request])
            THEN LET b == [a EXCEPT !.pr[a.free] = p_request]
                     c == HandleRequestStart(b, p_request)
                     d == [c EXCEPT !.sl = Append(@, p_request)]
                 IN  StartWorker(d, a.free, spawnOk)
            ELSE Check(a, a.ms[p_request] = "CANCELLED", "Update.CANCELLED")
    ELSE st

UpdateResult(spawnOk) == Dispatch(UpdateLoop(Snapshot, 0), spawnOk)

\* Whether this Update reaches pthread_create
Spawns ==
    LET st == UpdateLoop(Snapshot, 0)
    IN  /\ st.found /\ st.q # << >>
        /\ CanStart(st.ms[TakeRequest(st.q).p_request])
        /\ st.ws[st.free] = "UNUSED"

\* Whether this Update has to wait in pthread_mutex_lock (WakeToStatus on the
\* READY worker it dispatches to; a worker in its DONE wait holds no mutex)
UpdateBlocks ==
    LET st == UpdateLoop(Snapshot, 0)
    IN  /\ st.found /\ st.q # << >>
        /\ CanStart(st.ms[TakeRequest(st.q).p_request])
        /\ st.ws[st.free] # "UNUSED"
        /\ HoldsWakeMutex(thread[st.free])

\* HttpClient::Update, from its call to its return
Update(spawnOk) ==
    /\ client = "alive"
    /\ spawnOk \/ Spawns
    /\ ~UpdateBlocks
    /\ Commit(UpdateResult(spawnOk))
    /\ UNCHANGED << NUM_WORKERS, client, tdIndex, tdPhase, cbInfo, idleAtTeardown,
                    kind, enc, post, m_bytesUploaded, m_progress, m_url, returned,
                    queueLog, m_workerResponseBuffer,
                    tmpFile, destFile, cancelAndQuit, responseHeadersDone,
                    pResponseHeaders, result, responseStatusCode, curl >>

\* ------------------------------------------------- HttpClient_WorkerThread
\* thread[w]: "none" (never created), "top" (line 137), "perform" (inside
\* curl_easy_perform), "waitDone" (line 186), "toReady" (line 198),
\* "waitReady" (inside pthread_cond_timedwait, line 204), "yieldReady" (the
\* timed wait has returned, lines 205-207, wakeMutex held), "exited" (returned).

\* line 137: the loop test; the body up to curl_easy_perform configures the
\* session from pRequest.
W_Top(w) ==
    /\ thread[w] = "top"
    /\ IF cancelAndQuit[w]
       THEN /\ thread' = [thread EXCEPT ![w] = "exited"]
            /\ curl' = curl
       ELSE /\ thread' = [thread EXCEPT ![w] = "perform"]
            /\ curl' = [curl EXCEPT ![w] =
                            [phase |-> "status", code |-> 0, nbody |-> 0,
                             readfunction |-> IF GetMethod(pRequest[w]) = "POST"
                                              THEN "ReadCallback"
                                              ELSE curl[w].readfunction]]
    /\ UNCHANGED << status, pRequest, cancelAndQuit, responseHeadersDone,
                    pResponseHeaders, result, responseStatusCode, woken >>
    /\ UNCHANGED appVars
    /\ UNCHANGED requestVars
    /\ assertFailed' = assertFailed

\* The header line the transport engine may deliver next: the header
\* callback is given the lines of every response of the transfer, an interim
\* one (the answer to the "Expect: 100-continue" that goes with a request
\* body, taken to come at most once, first) and then the final one.
NextHeaderLine(w, line) ==
    IF curl[w].phase = "status"
    THEN /\ line \in StatusLines \cup OtherStatusLines
         /\ line.value \in InterimCodes =>
                /\ GetMethod(pRequest[w]) \in {"POST", "PUT"}
                /\ pResponseHeaders[w] = << >>
    ELSE /\ curl[w].phase = "headers"
         /\ \/ line = EndLine
            \/ line \in KeyLines /\ Len(pResponseHeaders[w]) <= MaxHeaders

\* HttpClient_WorkerThread_HeaderCallback
W_HeaderCallback(w, line) ==
    /\ thread[w] = "perform"
    /\ NextHeaderLine(w, line)
    /\ IF cancelAndQuit[w]
       THEN /\ curl' = [curl EXCEPT ![w].phase = "aborted"]
            /\ UNCHANGED << responseHeadersDone, pResponseHeaders >>
       ELSE IF line.header = ""
       THEN /\ responseHeadersDone' = [responseHeadersDone EXCEPT ![w] = TRUE]
            /\ curl' = [curl EXCEPT ![w].phase = IF curl[w].code \in InterimCodes
                                                 THEN "status" ELSE "body"]
            /\ UNCHANGED pResponseHeaders
       ELSE /\ pResponseHeaders' = [pResponseHeaders EXCEPT ![w] = << line >> \o @]
            /\ curl' = [curl EXCEPT ![w].phase = "headers",
                                    ![w].code = IF line.header = "HTTP"
                                                THEN line.value ELSE @]
            /\ UNCHANGED responseHeadersDone
    /\ UNCHANGED << status, pRequest, cancelAndQuit, result, responseStatusCode,
                    thread, woken >>
    /\ UNCHANGED appVars
    /\ UNCHANGED requestVars
    /\ assertFailed' = assertFailed

\* HttpPost::Worker_HandleData (YoutubeUploadRequest's is the same text) /
\* HttpDownload::Worker_HandleData
Worker_HandleData(r, b) ==
    IF kind[r] \in {"Post", "Put"}
    THEN /\ m_workerResponseBuffer' = [m_workerResponseBuffer EXCEPT ![r] = Append(@, b)]
         /\ UNCHANGED tmpFile
    ELSE /\ tmpFile' = [tmpFile EXCEPT ![r] =
                            Append(IF @ = NoFile THEN << >> ELSE @, b)]
         /\ UNCHANGED m_workerResponseBuffer

\* HttpClient_WorkerThread_WriteCallback
W_WriteCallback(w, b) ==
    /\ thread[w] = "perform"
    /\ curl[w].phase = "body"
    /\ curl[w].nbody < MaxBody
    /\ IF cancelAndQuit[w]
       THEN /\ curl' = [curl EXCEPT ![w].phase = "aborted"]
            /\ UNCHANGED << m_workerResponseBuffer, tmpFile >>
       ELSE /\ curl' = [curl EXCEPT ![w].nbody = @ + 1]
            /\ Worker_HandleData(pRequest[w], b)
    /\ UNCHANGED << status, pRequest, cancelAndQuit, responseHeadersDone,
                    pResponseHeaders, result, responseStatusCode, thread, woken >>
    /\ UNCHANGED appVars
    /\ UNCHANGED << m_status, statusLog, m_responseHeaders,
                    destFile, assertFailed >>

Worker_HandleDoneMut(r, success, httpStatusCode) ==
    IF kind[r] = "Download" /\ tmpFile[r] # NoFile
    THEN /\ tmpFile' = [tmpFile EXCEPT ![r] = NoFile]
         /\ destFile' = [destFile EXCEPT ![r] = tmpFile[r]]
    ELSE UNCHANGED << tmpFile, destFile >>

\* HttpDownload::Worker_HandleDone (HttpRequest::Worker_HandleDone is empty)
Worker_HandleDone(r, success, httpStatusCode) ==
    IF kind[r] = "Download" /\ tmpFile[r] # NoFile
    THEN /\ tmpFile' = [tmpFile EXCEPT ![r] = NoFile]
         /\ destFile' = IF success /\ httpStatusCode = 200
                        THEN [destFile EXCEPT ![r] = tmpFile[r]]
                        ELSE destFile
    ELSE UNCHANGED << tmpFile, destFile >>

\* What curl_easy_perform can return: CURLE_OK only for a response received
\* past its headers and not aborted by a callback; an error at any point.
TransferResult(w, res) ==
    res = CURLE_OK => curl[w].phase = "body"

W_FinishMut(w, res) ==
    /\ thread[w] = "perform"
    /\ TransferResult(w, res)
    /\ result' = [result EXCEPT ![w] = res]
    /\ responseStatusCode' = [responseStatusCode EXCEPT ![w] = curl[w].code]
    /\ Worker_HandleDone(pRequest[w], res = CURLE_OK, curl[w].code)
    /\ status' = [status EXCEPT ![w] = "DONE"]
    /\ thread' = [thread EXCEPT ![w] = "waitDone"]
    /\ woken' = [woken EXCEPT ![w] = FALSE]
    /\ curl' = [curl EXCEPT ![w] =
                    [IdleTransfer EXCEPT !.readfunction = curl[w].readfunction]]
    /\ m_status' = [m_status EXCEPT ![pRequest[w]] =
                        IF res = CURLE_OK THEN "DONE" ELSE "ERROR"]
    /\ UNCHANGED << pRequest, cancelAndQuit, responseHeadersDone, pResponseHeaders >>
    /\ UNCHANGED appVars
    /\ UNCHANGED << statusLog, m_responseHeaders,
                    m_workerResponseBuffer, assertFailed >>

\* lines 173-186: curl_easy_perform returns, CURLINFO_RESPONSE_CODE (0 when no
\* status line came), Worker_HandleDone, status = DONE, pthread_cond_wait
W_Finish(w, res) ==
    /\ thread[w] = "perform"
    /\ TransferResult(w, res)
    /\ result' = [result EXCEPT ![w] = res]
    /\ responseStatusCode' = [responseStatusCode EXCEPT ![w] = curl[w].code]
    /\ Worker_HandleDone(pRequest[w], res = CURLE_OK, curl[w].code)
    /\ status' = [status EXCEPT ![w] = "DONE"]
    /\ thread' = [thread EXCEPT ![w] = "waitDone"]
    /\ woken' = [woken EXCEPT ![w] = FALSE]
    /\ curl' = [curl EXCEPT ![w] =
                    [IdleTransfer EXCEPT !.readfunction = curl[w].readfunction]]
    /\ UNCHANGED << pRequest, cancelAndQuit, responseHeadersDone, pResponseHeaders >>
    /\ UNCHANGED appVars
    /\ UNCHANGED << m_status, statusLog, m_responseHeaders,
                    m_workerResponseBuffer, assertFailed >>

\* lines 186-195: the wait returns; Worker_HandleCleanup (HttpPost frees its
\* buffer, which nothing reads again), Reset, the cancelAndQuit test
W_WakeDone(w) ==
    /\ thread[w] = "waitDone"
    /\ woken[w]
    /\ woken' = [woken EXCEPT ![w] = FALSE]
    /\ assertFailed' = IF status[w] = "CLEANUP" THEN assertFailed
                       ELSE assertFailed \cup {"Worker.CLEANUP"}
    /\ responseHeadersDone' = [responseHeadersDone EXCEPT ![w] = FALSE]
    /\ pResponseHeaders' = [pResponseHeaders EXCEPT ![w] = << >>]
    /\ responseStatusCode' = [responseStatusCode EXCEPT ![w] = 0]
    /\ thread' = [thread EXCEPT ![w] = IF cancelAndQuit[w] THEN "exited" ELSE "toReady"]
    /\ UNCHANGED << status, pRequest, cancelAndQuit, result, curl >>
    /\ UNCHANGED appVars
    /\ UNCHANGED requestVars

\* lines 198-204: status = READY, into the timed wait
W_ToReady(w) ==
    /\ thread[w] = "toReady"
    /\ status' = [status EXCEPT ![w] = "READY"]
    /\ thread' = [thread EXCEPT ![w] = "waitReady"]
    /\ UNCHANGED << pRequest, cancelAndQuit, responseHeadersDone,
                    pResponseHeaders, result, responseStatusCode, woken, curl >>
    /\ UNCHANGED appVars
    /\ UNCHANGED requestVars
    /\ assertFailed' = assertFailed

\* line 204: pthread_cond_timedwait returns, by a signal or at its timeout,
\* with wakeMutex locked again
W_ReadyTimedWait(w) ==
    /\ thread[w] = "waitReady"
    /\ thread' = [thread EXCEPT ![w] = "yieldReady"]
    /\ UNCHANGED << status, pRequest, cancelAndQuit, responseHeadersDone,
                    pResponseHeaders, result, responseStatusCode, woken, curl >>
    /\ UNCHANGED appVars
    /\ UNCHANGED requestVars
    /\ assertFailed' = assertFailed

\* line 200: the test of the READY loop
ReadyLoopExitsMut(sc, cancel) == sc # "READY"
ReadyLoopExits(sc, cancel) == sc # "READY" \/ cancel

\* lines 200-211: after s3eDeviceYield the loop test; the loop either waits
\* again or ends, and then the IwAssert and the unlock
W_ReadyWake(w) ==
    /\ thread[w] = "yieldReady"
    /\ IF ReadyLoopExits(status[w], cancelAndQuit[w])
       THEN /\ assertFailed' = IF status[w] = "ACTIVE" \/ cancelAndQuit[w]
                               THEN assertFailed
                               ELSE assertFailed \cup {"Worker.ACTIVE"}
            /\ thread' = [thread EXCEPT ![w] = "top"]
       ELSE /\ assertFailed' = assertFailed
            /\ thread' = [thread EXCEPT ![w] = "waitReady"]
    /\ UNCHANGED << status, pRequest, cancelAndQuit, responseHeadersDone,
                    pResponseHeaders, result, responseStatusCode, woken, curl >>
    /\ UNCHANGED appVars
    /\ UNCHANGED requestVars

WorkerStep(w) ==
    \/ W_Top(w)
    \/ \E line \in StatusLines \cup KeyLines \cup {EndLine} : W_HeaderCallback(w, line)
    \/ \E b \in Bytes : W_WriteCallback(w, b)
    \/ \E res \in {CURLE_OK, CURLE_ERR} : W_Finish(w, res)
    \/ W_WakeDone(w)
    \/ W_ToReady(w)
    \/ W_ReadyTimedWait(w)
    \/ W_ReadyWake(w)

\* ----------------------------------------------------------- ~HttpClient
Idle ==
    /\ m_pendingRequests = << >>
    /\ \A w \in Pool : status[w] \in {"UNUSED", "READY"}

T_Begin ==
    /\ client = "alive"
    /\ client' = "destroying"
    /\ tdIndex' = 0
    /\ tdPhase' = "check"
    /\ idleAtTeardown' = Idle
    /\ m_activeDownloads' = [u \in Urls |-> None]
    /\ UNCHANGED << NUM_WORKERS, kind, enc, post, m_bytesUploaded, m_progress, m_url, returned, m_pendingRequests, m_pendingCallbacks,
                    cbInfo, callCount, queueLog, startLog, assertFailed >>
    /\ UNCHANGED requestVars
    /\ UNCHANGED workerVars

\* lines 245-247: the UNUSED test and HttpClient_Worker::CancelAndQuit
T_CancelAndQuit ==
    /\ client = "destroying"
    /\ tdPhase = "check"
    /\ tdIndex < NUM_WORKERS
    /\ status[tdIndex] # "UNUSED" => ~HoldsWakeMutex(thread[tdIndex])
    /\ IF status[tdIndex] # "UNUSED"
       THEN /\ cancelAndQuit' = [cancelAndQuit EXCEPT ![tdIndex] = TRUE]
            /\ woken' = [woken EXCEPT ![tdIndex] = @ \/ (thread[tdIndex] = "waitDone")]
            /\ tdPhase' = "join"
            /\ tdIndex' = tdIndex
       ELSE /\ tdIndex' = tdIndex + 1
            /\ UNCHANGED << cancelAndQuit, woken, tdPhase >>
    /\ UNCHANGED << NUM_WORKERS, client, m_pendingRequests, m_pendingCallbacks,
                    cbInfo, callCount, queueLog, startLog, assertFailed,
                    idleAtTeardown, kind, enc, post, m_bytesUploaded, m_progress, m_url, m_activeDownloads, returned >>
    /\ UNCHANGED requestVars
    /\ UNCHANGED << status, pRequest, responseHeadersDone, pResponseHeaders,
                    result, responseStatusCode, thread, curl >>

\* line 248: pthread_join returns once the thread has returned.  A worker
\* whose pthread_create failed has no thread and an unset thread_id: the join
\* on it is taken to fail at once.
T_Join ==
    /\ client = "destroying"
    /\ tdPhase = "join"
    /\ thread[tdIndex] \in {"exited", "none"}
    /\ tdIndex' = tdIndex + 1
    /\ tdPhase' = "check"
    /\ UNCHANGED << NUM_WORKERS, client, m_pendingRequests, m_pendingCallbacks,
                    cbInfo, callCount, queueLog, startLog, assertFailed,
                    idleAtTeardown, kind, enc, post, m_bytesUploaded, m_progress, m_url, m_activeDownloads, returned >>
    /\ UNCHANGED requestVars
    /\ UNCHANGED workerVars

\* lines 254-260: what the destructor leaves of the queue and of the callback
\* list, and the statuses of the requests it drops
DiscardQueue(q) == << >>
DiscardCallbacks(cbs) == << >>
DiscardedStatusMut(s) == IF s \in {"PENDING", "SENDING", "HEADERS"} THEN "CANCELLED" ELSE s
DiscardedStatus(s) == s

T_Finish ==
    /\ client = "destroying"
    /\ tdPhase = "check"
    /\ tdIndex = NUM_WORKERS
    /\ client' = "destroyed"
    /\ pRequest' = [w \in Workers |-> None]
    /\ m_pendingRequests' = DiscardQueue(m_pendingRequests)
    /\ m_pendingCallbacks' = DiscardCallbacks(m_pendingCallbacks)
    /\ m_status' = [r \in Requests |-> DiscardedStatus(m_status[r])]
    /\ UNCHANGED << NUM_WORKERS, tdIndex, tdPhase, cbInfo, callCount,
                    queueLog, startLog, assertFailed,
                    idleAtTeardown, kind, enc, post, m_bytesUploaded, m_progress, m_url, m_activeDownloads, returned >>
    /\ UNCHANGED << statusLog, m_responseHeaders,
                    m_workerResponseBuffer, tmpFile, destFile >>
    /\ UNCHANGED << status, cancelAndQuit, responseHeadersDone, pResponseHeaders,
                    result, responseStatusCode, thread, woken, curl >>

TeardownStep == T_Begin \/ T_CancelAndQuit \/ T_Join \/ T_Finish

\* --------------------------------------------------------- HttpDownloader
\* HttpDownloader.h line 18: m_activeDownloads.count(url)
ActiveDownloadMut(ad, url) == FALSE
ActiveDownload(ad, url) == ad[url] # None

\* new HttpDownload(url, destFile): a request object not used before
NewRequest == CHOOSE r \in Requests :
                  /\ \A i \in DOMAIN queueLog : queueLog[i] # r
                  /\ \A q \in Requests : (\A i \in DOMAIN queueLog : queueLog[i] # q) => r <= q

\* HttpDownloader::DownloadFile
DownloadFile(url) ==
    /\ client = "alive"
    /\ IF ActiveDownload(m_activeDownloads, url)
       THEN /\ returned' = [url |-> url, request |-> m_activeDownloads[url],
                            created |-> FALSE]
            /\ UNCHANGED << m_status, statusLog, assertFailed, m_pendingRequests,
                            m_pendingCallbacks, cbInfo, queueLog, m_activeDownloads,
                            m_url >>
       ELSE /\ Len(queueLog) < MaxQueued
            /\ \E r \in Requests : \A i \in DOMAIN queueLog : queueLog[i] # r
            /\ QueueEffect(NewRequest, "downloader")
            /\ m_activeDownloads' = [m_activeDownloads EXCEPT ![url] = NewRequest]
            /\ m_url' = [m_url EXCEPT ![NewRequest] = url]
            /\ returned' = [url |-> url, request |-> NewRequest, created |-> TRUE]
    /\ UNCHANGED << NUM_WORKERS, client, tdIndex, tdPhase, callCount,
                    startLog, idleAtTeardown, m_responseHeaders,
                    m_workerResponseBuffer, tmpFile, destFile, kind, enc, post, m_bytesUploaded, m_progress >>
    /\ UNCHANGED workerVars

\* The application cancels a request DownloadFile returned to it.
DownloadCancel(r) ==
    /\ \E i \in DOMAIN queueLog : queueLog[i] = r
    /\ Cancel(r)

\* ------------------------------------------------------------ the system
AppStep ==
    \/ \E r \in Requests, cbKind \in {"null", "alive"} : QueueRequest(r, cbKind)
    \/ \E r \in Requests : Cancel(r)
    \/ \E c \in CbIds : WatcherDies(c)
    \/ \E spawnOk \in BOOLEAN : Update(spawnOk)

Next ==
    \/ AppStep
    \/ \E w \in Workers : WorkerStep(w)
    \/ TeardownStep

Spec == Init /\ [][Next]_vars

\* An HttpDownloader: HttpClient is a private base, so the application has
\* DownloadFile, Update and the destructor, and Cancel on what it was returned.
DownloaderInit == InitWith(DownloaderRequests) /\ enc = NoEncoding /\ post = NoPost

DownloaderNext ==
    \/ \E url \in Urls : DownloadFile(url)
    \/ \E r \in Requests : DownloadCancel(r)
    \/ \E spawnOk \in BOOLEAN : Update(spawnOk)
    \/ \E w \in Workers : WorkerStep(w)
    \/ TeardownStep

DownloaderSpec == DownloaderInit /\ [][DownloaderNext]_vars

FairSpec ==
    /\ Init
    /\ [][Next]_vars
    /\ WF_vars(\E spawnOk \in BOOLEAN : Update(spawnOk))
    /\ \A w \in Workers : WF_vars(WorkerStep(w))
    /\ WF_vars(T_CancelAndQuit \/ T_Join \/ T_Finish)

\* ------------------------------------------------------------ the claims
Terminal == {"DONE", "ERROR", "CANCELLED"}
Busy(w) == status[w] \in {"ACTIVE", "DONE", "CLEANUP"}

RECURSIVE IsSubsequence(_, _)
IsSubsequence(s, t) ==
    IF s = << >> THEN TRUE
    ELSE IF t = << >> THEN FALSE
    ELSE IF Head(s) = Head(t) THEN IsSubsequence(Tail(s), Tail(t))
    ELSE IsSubsequence(s, Tail(t))

Occurrences(s, x) == Cardinality({ i \in DOMAIN s : s[i] = x })
FirstIndex(s, x) == CHOOSE i \in DOMAIN s : s[i] = x /\ \A j \in 1 .. (i - 1) : s[j] # x

\* C1: the values a request's status takes, in order, are a subsequence of
\* BUILDING, PENDING, SENDING, HEADERS, DONE or of BUILDING, PENDING, SENDING,
\* HEADERS, ERROR, or of (BUILDING,) PENDING, CANCELLED; in particular DONE is
\* never followed by ERROR.
C1_StatusSequence ==
    \A r \in Requests :
        \/ IsSubsequence(statusLog[r], << "BUILDING", "PENDING", "SENDING", "HEADERS", "DONE" >>)
        \/ IsSubsequence(statusLog[r], << "BUILDING", "PENDING", "SENDING", "HEADERS", "ERROR" >>)
        \/ IsSubsequence(statusLog[r], << "BUILDING", "PENDING", "CANCELLED" >>)

\* C2: no request is the current request of two busy (ACTIVE, DONE or CLEANUP)
\* workers at once, and HandleRequestStart runs at most once per request.
C2_NoDoubleDispatch ==
    /\ \A w1, w2 \in Pool :
           (w1 # w2 /\ Busy(w1) /\ Busy(w2) /\ pRequest[w1] # None)
               => pRequest[w1] # pRequest[w2]
    /\ \A r \in Requests : Occurrences(startLog, r) <= 1

\* C2's case: a request queued twice while PENDING, started once, its second
\* queue entry popped by a later Update with a worker free.
C2_Witness ==
    \E r \in Requests :
        /\ Occurrences(queueLog, r) = 2
        /\ m_pendingRequests = << >>
        /\ Occurrences(startLog, r) = 1
        /\ "Update.CANCELLED" \in assertFailed
        /\ \E w \in Pool : Busy(w) /\ pRequest[w] = r

\* C3: a callback queued with a request is invoked exactly once when the
\* request reaches DONE or ERROR (its watcher being alive), never otherwise
\* (in particular not for a request cancelled while PENDING), and never twice.
C3_CallbackOnce ==
    \A c \in CbIds :
        cbInfo[c].req # None =>
            /\ callCount[c] <= 1
            /\ callCount[c] = 1 => m_status[cbInfo[c].req] \in {"DONE", "ERROR"}
            /\ (cbInfo[c].watcher = "alive" /\ m_status[cbInfo[c].req] \in {"DONE", "ERROR"})
                   => callCount[c] = 1

\* C3's case: one callback called for a finished request, another never
\* called for a request cancelled while PENDING and since popped.
C3_Witness ==
    \E c1, c2 \in CbIds :
        /\ callCount[c1] = 1
        /\ cbInfo[c1].req # None /\ m_status[cbInfo[c1].req] = "ERROR"
        /\ cbInfo[c2].req # None /\ m_status[cbInfo[c2].req] = "CANCELLED"
        /\ callCount[c2] = 0
        /\ m_pendingRequests = << >>

\* C5: requests are started in the order they were first queued.
C5_FifoStart ==
    \A i, j \in DOMAIN startLog :
        i < j => FirstIndex(queueLog, startLog[i]) < FirstIndex(queueLog, startLog[j])

\* C5's case: two requests started one after the other on two workers.
C5_Witness ==
    /\ Len(startLog) = 2
    /\ startLog[1] # startLog[2]
    /\ \A w \in Pool : status[w] = "ACTIVE"
    /\ NUM_WORKERS = 2

InFlight == { r \in Requests : m_status[r] \in {"SENDING", "HEADERS"} }
Queued(r) == \E i \in DOMAIN m_pendingRequests : m_pendingRequests[i] = r

\* Update or the pool's one worker can change the state.
PoolOfOneCanMove ==
    ENABLED << (\E spawnOk \in BOOLEAN : Update(spawnOk)) \/ WorkerStep(0) >>_vars

\* C4: with one worker, at most one request is SENDING or HEADERS at a time,
\* a request started later finds every request started before it finished,
\* and while a request waits PENDING in the queue of a living client, Update
\* or the worker can take a step towards it, so that it is reached in the end.
C4_PoolOfOne ==
    NUM_WORKERS = 1 =>
        /\ Cardinality(InFlight) <= 1
        /\ \A i, j \in DOMAIN startLog :
               i < j => m_status[startLog[i]] \in {"DONE", "ERROR"}
        /\ (client = "alive" /\ \E r \in Requests : Queued(r) /\ m_status[r] = "PENDING")
               => PoolOfOneCanMove

\* C6: Cancel() turns PENDING into CANCELLED and touches nothing else; from
\* any other status it changes nothing at all.
C6_CancelFrame ==
    [][\A r \in Requests :
          Cancel(r) =>
              IF m_status[r] = "PENDING"
              THEN /\ m_status'[r] = "CANCELLED"
                   /\ \A q \in Requests \ {r} : m_status'[q] = m_status[q]
                   /\ UNCHANGED << m_responseHeaders, m_workerResponseBuffer,
                                   tmpFile, destFile, m_pendingRequests,
                                   m_pendingCallbacks, workerVars >>
              ELSE UNCHANGED vars]_vars

\* C6's case: one request cancelled while PENDING, another in the middle of
\* its transfer, where Cancel() is a no-op.
C6_Witness ==
    \E r1, r2 \in Requests :
        /\ m_status[r1] = "CANCELLED"
        /\ m_status[r2] = "SENDING"
        /\ \E w \in Pool : pRequest[w] = r2 /\ thread[w] = "perform"

\* This step pops the queue's head r inside Update.
Pops(r) ==
    /\ client' = "alive"
    /\ m_pendingRequests # << >>
    /\ Head(m_pendingRequests) = r
    /\ m_pendingRequests' = Tail(m_pendingRequests)

\* C7: a CANCELLED request is never started nor held by a worker, stays
\* CANCELLED, and the Update that pops it starts no worker.
C7_CancelledDropped ==
    /\ [](\A r \in Requests :
              m_status[r] = "CANCELLED" =>
                  /\ Occurrences(startLog, r) = 0
                  /\ \A w \in Workers : pRequest[w] # r)
    /\ [][\A r \in Requests :
              m_status[r] = "CANCELLED" =>
                  /\ m_status'[r] = "CANCELLED"
                  /\ Pops(r) =>
                         /\ startLog' = startLog
                         /\ thread' = thread
                         /\ \A w \in Workers :
                                status'[w] # status[w] =>
                                    status[w] = "DONE" /\ status'[w] = "CLEANUP"]_vars

\* C7's case: the only queued request was cancelled and an Update has popped
\* it with every worker free.
C7_Witness ==
    \E r \in Requests :
        /\ m_status[r] = "CANCELLED"
        /\ queueLog = << r >>
        /\ m_pendingRequests = << >>
        /\ client = "alive"
        /\ \A w \in Pool : status[w] = "UNUSED"

\* C8: inside ~HttpClient the destructor or the worker it is joining can
\* always take a step: the join is never left waiting on a thread that
\* nothing will wake.
C8_TeardownNeverStuck ==
    client = "destroying" =>
        ENABLED (\/ T_CancelAndQuit \/ T_Join \/ T_Finish
                 \/ \E w \in Workers : w = tdIndex /\ WorkerStep(w))

\* What is left of an idle teardown: the workers still to visit, then the
\* join still to make, then the steps the joined thread is from its return.
ThreadRank(t) ==
    IF t = "waitReady" THEN 3 ELSE IF t = "yieldReady" THEN 2
    ELSE IF t = "top" THEN 1 ELSE 0
TeardownRank ==
    10 * (NUM_WORKERS - tdIndex)
        + (IF tdPhase = "check" THEN 5 ELSE ThreadRank(thread[tdIndex]))

\* A step of the destructor, or of the thread it is joining.
TeardownProgress ==
    \/ tdPhase' # tdPhase
    \/ tdIndex' # tdIndex
    \/ tdPhase = "join" /\ thread'[tdIndex] # thread[tdIndex]

\* C9: a teardown begun with the queue empty and every worker UNUSED or
\* READY completes without blocking: until it is over the destructor or the
\* worker it joins can always step, every such step brings the end nearer,
\* and no UNUSED worker is joined.
C9_IdleTeardownCompletes ==
    /\ []((client = "destroying" /\ idleAtTeardown) =>
              ENABLED (\/ T_CancelAndQuit \/ T_Join \/ T_Finish
                       \/ \E w \in Workers : w = tdIndex /\ WorkerStep(w)))
    /\ [][(/\ client = "destroying" /\ idleAtTeardown /\ client' = "destroying"
           /\ TeardownProgress)
              => TeardownRank' < TeardownRank]_vars
    /\ []((client = "destroying" /\ tdPhase = "join") => status[tdIndex] # "UNUSED")

\* C9's case: an idle client destroyed, one worker's thread joined after it
\* left its READY wait, another worker never used.
C9_Witness ==
    /\ client = "destroyed"
    /\ idleAtTeardown
    /\ \E w1, w2 \in Pool :
           /\ thread[w1] = "exited" /\ status[w1] = "READY"
           /\ status[w2] = "UNUSED"

\* C10: from the moment ~HttpClient runs no callback is invoked and no
\* request's status changes (but by the application's own Cancel of a PENDING
\* request afterwards); the queue and the callback list end up empty.
C10_TeardownSilent ==
    /\ [][client # "alive" =>
             /\ callCount' = callCount
             /\ \A r \in Requests :
                    m_status'[r] # m_status[r] =>
                        /\ client = "destroyed"
                        /\ m_status[r] = "PENDING" /\ m_status'[r] = "CANCELLED"]_vars
    /\ [](client = "destroyed" =>
             m_pendingRequests = << >> /\ m_pendingCallbacks = << >>)

\* C10's case: the client destroyed with one request still queued and one
\* still in transfer, both with a callback that has not been called.
C10_Witness ==
    /\ client = "destroyed"
    /\ \E c1, c2 \in CbIds :
           /\ cbInfo[c1].req # None /\ cbInfo[c2].req # None
           /\ cbInfo[c1].watcher = "alive" /\ cbInfo[c2].watcher = "alive"
           /\ m_status[cbInfo[c1].req] = "PENDING"
           /\ m_status[cbInfo[c2].req] \in {"SENDING", "HEADERS"}
           /\ callCount[c1] = 0 /\ callCount[c2] = 0

\* C11: Update always returns.  The only place it can wait is the
\* pthread_mutex_lock of WakeToStatus: a worker thread that holds its
\* wakeMutex can always take a step, and that step releases the mutex.
C11_UpdateNeverBlocks ==
    /\ [](\A w \in Pool : HoldsWakeMutex(thread[w]) => ENABLED WorkerStep(w))
    /\ [][\A w \in Pool :
              (HoldsWakeMutex(thread[w]) /\ thread'[w] # thread[w])
                  => ~HoldsWakeMutex(thread'[w])]_vars

\* C11's case: Update is called to dispatch to a READY worker at the moment
\* that worker's timed wait has returned with the mutex locked.
C11_Witness ==
    /\ client = "alive"
    /\ UpdateBlocks

\* The requests made so far for a url, and those of them still under way.
MadeFor(url) == { r \in Requests : m_url[r] = url }
UnderWay(url) == { r \in MadeFor(url) : m_status[r] \in {"PENDING", "SENDING", "HEADERS"} }

\* C12: a DownloadFile call for a url whose request is not yet completed
\* returns that very request and queues nothing, so that a url never has two
\* transfers under way; a call made after every request for the url reached
\* DONE or ERROR makes a new request and queues it.
C12_DownloadOnce ==
    /\ [](\A url \in Urls : Cardinality(UnderWay(url)) <= 1)
    /\ [][\A url \in Urls :
              DownloadFile(url) =>
                  /\ UnderWay(url) # {} =>
                         /\ returned'.request \in UnderWay(url)
                         /\ UNCHANGED << m_pendingRequests, queueLog, m_status >>
                  /\ (\A r \in MadeFor(url) : m_status[r] \in {"DONE", "ERROR"}) =>
                         /\ returned'.request \notin MadeFor(url)
                         /\ m_url'[returned'.request] = url
                         /\ m_status'[returned'.request] = "PENDING"
                         /\ m_pendingRequests' =
                                Append(m_pendingRequests, returned'.request)]_vars

\* C12's case: the first request for a url has completed, a later call made
\* a second request for the url, and the last call was returned that second
\* request again while it was still under way.
C12_Witness ==
    \E r1, r2 \in Requests :
        /\ r1 # r2
        /\ m_url[r1] # None /\ m_url[r1] = m_url[r2]
        /\ m_status[r1] \in {"DONE", "ERROR"}
        /\ r2 \in UnderWay(m_url[r2])
        /\ returned = [url |-> m_url[r2], request |-> r2, created |-> FALSE]

\* C13: no url of the active-download map is mapped to a request that is
\* DONE, ERROR or CANCELLED once the Update that could see it has run: in
\* particular not to a cancelled request that Update has popped.
C13_NoTerminalEntry ==
    \A url \in Urls :
        LET r == m_activeDownloads[url]
        IN  (r # None /\ m_status[r] \in Terminal) => Queued(r)

\* The status code a caller can work out from the accessors of a request:
\* no accessor returns the number, and GetResponseHeaders holds the status
\* line under the name "HTTP" when a response came, nothing otherwise.
StatusCodeOf(headers) ==
    IF \E h \in headers : h.header = "HTTP"
    THEN (CHOOSE h \in headers : h.header = "HTTP").value
    ELSE 0

\* C14: when Update ends a request in ERROR because its transfer failed or
\* its status code was 400 or more, the status code of the response (0 when
\* none came) can be read from the request afterwards.
C14_StatusCodeReadable ==
    [][\A w \in Pool :
          LET r == pRequest[w] IN
          (/\ status[w] = "DONE" /\ status'[w] = "CLEANUP"
           /\ r # None
           /\ ~Success(result[w], responseStatusCode[w])
           /\ m_status'[r] = "ERROR")
              => StatusCodeOf(m_responseHeaders'[r]) = responseStatusCode[w]]_vars

PostNext == Update(TRUE)

PostSpec == PostInit /\ [][PostNext]_vars

\* C16: for an HttpPost whose transfer succeeded with a status code under
\* 400, Update leaves the request in ERROR when the body starts with "{" or
\* "[" and does not parse, and in DONE when the body parses, is empty or
\* starts with any other character; after a failed transfer the request is
\* in ERROR whatever the body.
C16_PostFinalStatus ==
    [][\A w \in Pool :
          LET r == pRequest[w]
              body == m_workerResponseBuffer[r]
              ok == result[w] = CURLE_OK /\ responseStatusCode[w] < 400
              opens == body # << >> /\ (body[1] = "{" \/ body[1] = "[")
          IN  (/\ status[w] = "DONE" /\ status'[w] = "CLEANUP"
               /\ r # None /\ kind[r] = "Post")
                  => m_status'[r] = IF ok /\ (~opens \/ ParsesAsJson(body))
                                    THEN "DONE" ELSE "ERROR"]_vars

C16_Witness ==
    \E w \in Pool :
        /\ status[w] = "CLEANUP" /\ pRequest[w] # None
        /\ kind[pRequest[w]] = "Post"
        /\ result[w] = CURLE_OK /\ responseStatusCode[w] < 400
        /\ m_workerResponseBuffer[pRequest[w]] = << "[", "1", "]" >>
        /\ m_status[pRequest[w]] = "DONE"

\* C17: once an HttpDownload whose transfer succeeded with status code 200
\* is DONE, its destination file exists and holds the received bytes, and
\* no "<dest>.tmp" is left, for every body, the empty one included.
C17_DownloadStored ==
    \A r \in Requests :
        (/\ kind[r] = "Download"
         /\ m_status[r] = "DONE"
         /\ StatusCodeOf(m_responseHeaders[r]) = 200)
            => destFile[r] # NoFile /\ tmpFile[r] = NoFile

QueueRequestAnyStatus(r, cbKind) ==
    /\ client = "alive"
    /\ Len(queueLog) < MaxQueued
    /\ QueueEffect(r, cbKind)
    /\ UNCHANGED << m_activeDownloads, returned >>
    /\ UNCHANGED << NUM_WORKERS, client, tdIndex, tdPhase, callCount,
                    startLog, idleAtTeardown, m_responseHeaders,
                    m_workerResponseBuffer, tmpFile, destFile, kind, enc, post, m_bytesUploaded, m_progress, m_url >>
    /\ UNCHANGED workerVars

\* The program with an application that also queues requests it has
\* cancelled or that have run.
AnyStatusNext ==
    \/ Next
    \/ \E r \in Requests, cbKind \in {"null", "alive"} : QueueRequestAnyStatus(r, cbKind)

AnyStatusSpec == Init /\ [][AnyStatusNext]_vars

\* C19: QueueRequest compiles a BUILDING request; a request that was
\* BUILDING or PENDING is PENDING on return, is appended at the tail of the
\* pending queue, and gets a (request, callback) pair exactly when a
\* callback was given; a request in any other status is not enqueued.
C19_QueueRequest ==
    [][\A r \in Requests, cbKind \in {"null", "alive"} :
          QueueRequestAnyStatus(r, cbKind) =>
              IF m_status[r] \in {"BUILDING", "PENDING"}
              THEN /\ m_status'[r] = "PENDING"
                   /\ m_pendingRequests' = Append(m_pendingRequests, r)
                   /\ Len(m_pendingCallbacks') =
                          Len(m_pendingCallbacks) + (IF cbKind = "null" THEN 0 ELSE 1)
                   /\ cbKind # "null" =>
                          m_pendingCallbacks'[Len(m_pendingCallbacks')].req = r
              ELSE m_pendingRequests' = m_pendingRequests]_vars

\* How many times r has been taken off the pending queue: every entry was
\* pushed by QueueRequest (queueLog) and only Update's pop removes one.
TimesPopped(r) == Occurrences(queueLog, r) - Occurrences(m_pendingRequests, r)

\* C20: over the life of the HttpClient a request is removed from the
\* pending queue at most once, whatever QueueRequest, Cancel and Update
\* calls the application makes.
C20_PoppedAtMostOnce ==
    \A r \in Requests : client = "alive" => TimesPopped(r) <= 1

\* The workers Update finds free, and the smaller of two numbers.
FreeWorkers == { w \in Pool : status[w] \in {"UNUSED", "READY"} }
Min(a, b) == IF a <= b THEN a ELSE b

\* C21: one Update call gives a request to every free worker while the
\* queue is not empty: with k free workers and m PENDING requests queued,
\* min(k, m) requests are popped and started in that call.
C21_DispatchAll ==
    [][(\E spawnOk \in BOOLEAN : Update(spawnOk)) =>
          LET q == m_pendingRequests
              k == Cardinality(FreeWorkers)
          IN  (/\ \A i \in DOMAIN q : m_status[q[i]] = "PENDING"
               /\ \A i, j \in DOMAIN q : q[i] = q[j] => i = j)
                  => /\ Len(q) - Len(m_pendingRequests') = Min(k, Len(q))
                     /\ Len(startLog') - Len(startLog) = Min(k, Len(q))]_vars

\* ------------------------------------------------- HttpRequest::UrlEncode
\* A call of UrlEncode for every value over EncBytes, both modes, every build.
EncodeInit ==
    /\ InitWith(AppRequests)
    /\ post = NoPost
    /\ \E value \in EncValues, strict \in BOOLEAN, build \in Builds :
           enc = [value |-> value, strict |-> strict, build |-> build,
                  called |-> FALSE, escaped |-> << >>]

EncodeCall ==
    /\ ~enc.called
    /\ enc' = [enc EXCEPT !.called = TRUE,
                          !.escaped = UrlEncode(enc.value, enc.strict, enc.build)]
    /\ UNCHANGED << NUM_WORKERS, client, tdIndex, tdPhase, m_pendingRequests,
                    m_pendingCallbacks, m_status, m_responseHeaders,
                    m_workerResponseBuffer, tmpFile, destFile,
                    status, pRequest, cancelAndQuit, responseHeadersDone,
                    pResponseHeaders, result, responseStatusCode, thread, woken,
                    curl, cbInfo, statusLog, callCount, queueLog, startLog,
                    assertFailed, idleAtTeardown, kind, post, m_bytesUploaded,
                    m_progress, m_url, m_activeDownloads, returned >>

EncodeSpec == EncodeInit /\ [][EncodeCall]_vars

\* C22: UrlEncode of "a b&c" is "a+b%26c" in lenient mode and "a%20b%26c"
\* in strict mode.
C22_Example ==
    (enc.called /\ enc.value = ExampleValue) =>
        enc.escaped = IF enc.strict
                      THEN << 97, 37, 50, 48, 98, 37, 50, 54, 99 >>
                      ELSE << 97, 43, 98, 37, 50, 54, 99 >>

C22_Witness == enc.called /\ enc.value = ExampleValue /\ enc.strict

\* What the documentation gives for one byte: alphanumerics and - _ . as
\* they are, a space as + in lenient mode, anything else as % and the two
\* upper-case hexadecimal digits of the byte.
UpperHexDigit(d) == IF d < 10 THEN 48 + d ELSE 65 + (d - 10)
Documented(b, strict) ==
    IF b \in (48 .. 57) \cup (65 .. 90) \cup (97 .. 122) \cup {45, 95, 46} THEN << b >>
    ELSE IF b = 32 /\ ~strict THEN << 43 >>
    ELSE << 37, UpperHexDigit(b \div 16), UpperHexDigit(b % 16) >>
RECURSIVE DocumentedAll(_, _)
DocumentedAll(value, strict) ==
    IF value = << >> THEN << >>
    ELSE Documented(Head(value), strict) \o DocumentedAll(Tail(value), strict)

\* C23: UrlEncode maps each byte on its own, as documented, for every input
\* and both modes.
C23_ByteMap ==
    enc.called => enc.escaped = DocumentedAll(enc.value, enc.strict)

\* line 186: pthread_cond_wait returns although no signal was sent, which
\* POSIX allows; the wait is not inside a loop that tests status.
W_SpuriousWake(w) ==
    /\ thread[w] = "waitDone"
    /\ ~woken[w]
    /\ woken' = [woken EXCEPT ![w] = TRUE]
    /\ UNCHANGED << status, pRequest, cancelAndQuit, responseHeadersDone,
                    pResponseHeaders, result, responseStatusCode, thread, curl,
                    assertFailed >>
    /\ UNCHANGED appVars
    /\ UNCHANGED requestVars

\* The client at work (requests queued, Update, the worker threads) on a
\* platform whose condition waits may return without a signal.
WakeNext ==
    \/ \E r \in Requests, cbKind \in {"null", "alive"} : QueueRequest(r, cbKind)
    \/ \E spawnOk \in BOOLEAN : Update(spawnOk)
    \/ \E w \in Workers : WorkerStep(w)
    \/ \E w \in Workers : W_SpuriousWake(w)

WakeSpec == Init /\ [][WakeNext]_vars

\* The changes of HttpClient_Worker::status the life cycle names.
LifeCycle ==
    { << "UNUSED", "ACTIVE" >>, << "ACTIVE", "DONE" >>, << "DONE", "CLEANUP" >>,
      << "CLEANUP", "READY" >>, << "READY", "ACTIVE" >> }

\* C24: a worker's status changes only along UNUSED -> ACTIVE -> DONE ->
\* CLEANUP -> READY -> ACTIVE, never back to UNUSED, and its thread is
\* created at most once.  (An Update whose pthread_create fails assigns
\* ACTIVE and then DONE, both in the life cycle, before it returns.)
C24_LifeCycle ==
    [][\A w \in Workers :
          /\ status'[w] # status[w] =>
                \/ << status[w], status'[w] >> \in LifeCycle
                \/ /\ status[w] = "UNUSED" /\ status'[w] = "DONE"
                   /\ thread'[w] = "none"
          /\ thread[w] # "none" => thread'[w] # "none"
          /\ (thread[w] = "none" /\ thread'[w] # "none") => status[w] = "UNUSED"]_vars

\* C25: whenever Update can read a worker's per-request data, the worker is
\* not freeing or resetting it: a worker in DONE is parked in its DONE wait
\* and has not been released (or has no thread at all), and a worker that is
\* ACTIVE with its headers complete is inside the transfer.
C25_SafeWindow ==
    \A w \in Pool :
        client = "alive" =>
            /\ status[w] = "DONE" =>
                   \/ thread[w] = "none"
                   \/ thread[w] = "waitDone" /\ ~woken[w]
            /\ (status[w] = "ACTIVE" /\ responseHeadersDone[w]) =>
                   thread[w] = "perform"

\* C26: Worker_HandleCleanup runs on a request only after HandleResponse has
\* returned for it (which leaves the request DONE or ERROR), teardown
\* included.
C26_CleanupAfterResponse ==
    [][\A w \in Pool :
          (thread[w] = "waitDone" /\ thread'[w] # "waitDone")
              => m_status[pRequest[w]] \in {"DONE", "ERROR"}]_vars

\* C27: a worker that has set DONE leaves its wait only once the coordinator
\* has set CLEANUP, and a worker whose status is CLEANUP is not left blocked
\* in the DONE wait: the signal of WakeToStatus(CLEANUP) has reached it.
C27_WakeNotLost ==
    /\ [](\A w \in Pool :
              (thread[w] = "waitDone" /\ status[w] = "CLEANUP") => woken[w])
    /\ [][\A w \in Pool :
              (thread[w] = "waitDone" /\ thread'[w] # "waitDone")
                  => status[w] = "CLEANUP"]_vars

\* C28: when a callback is invoked for a request, HandleResponse has
\* returned (the request is DONE or ERROR) and the worker that processed the
\* request is still parked in its DONE wait with status DONE; that worker is
\* set to CLEANUP in the same Update, after the callbacks of the request have
\* been called and their pairs removed.
C28_CallbackWindow ==
    [][\A c \in CbIds :
          callCount'[c] # callCount[c] =>
              LET r == cbInfo[c].req IN
              /\ m_status'[r] \in {"DONE", "ERROR"}
              /\ \E w \in Pool :
                     /\ pRequest[w] = r
                     /\ status[w] = "DONE" /\ thread[w] = "waitDone" /\ ~woken[w]
                     /\ status'[w] = "CLEANUP"
              /\ \A i \in DOMAIN m_pendingCallbacks' :
                     m_pendingCallbacks'[i].req # r]_vars

\* C29: HandleResponseHeaders runs at most once for a request, only on the
\* coordinator thread, and exactly once before HandleResponse: by the time
\* the request is DONE or ERROR its status was set to HEADERS once, before.
C29_HeadersOnce ==
    /\ [](\A r \in Requests :
              /\ Occurrences(statusLog[r], "HEADERS") <= 1
              /\ m_status[r] \in {"DONE", "ERROR"} =>
                     \E i \in DOMAIN statusLog[r] :
                         /\ statusLog[r][i] = "HEADERS"
                         /\ \A j \in 1 .. i : statusLog[r][j] \notin {"DONE", "ERROR"})
    /\ [][(\E w \in Workers : WorkerStep(w)) =>
              UNCHANGED << statusLog, m_responseHeaders >>]_vars

\* C29's case: one request whose headers were handled while its worker was
\* ACTIVE, next to another that Update has taken through HandleResponse.
C29_Witness ==
    \E w1, w2 \in Pool :
        /\ pRequest[w1] # None /\ pRequest[w2] # None
        /\ status[w1] = "ACTIVE" /\ m_status[pRequest[w1]] = "HEADERS"
        /\ status[w2] = "CLEANUP" /\ thread[w2] = "waitDone"
        /\ m_status[pRequest[w2]] \in {"DONE", "ERROR"}

\* ------------------------------------- the read and progress callbacks
\* HttpPost::Worker_HandleUpload, line 102: MIN(what is left, fillSize)
NCopyMut(size, uploaded, fillSize) == fillSize
NCopy(size, uploaded, fillSize) == Min(size - uploaded, fillSize)

\* HttpPost::Worker_GetUploadSize (m_postData.size()) and
\* YoutubeUploadRequest's (m_fileSize); HttpRequest's is 0
Worker_GetUploadSize(r) == IF kind[r] \in {"Post", "Put"} THEN MaxUpload ELSE 0

\* HttpPost::Worker_HandleUpload: copies MIN(what is left, fillSize) bytes of
\* m_postData and advances m_bytesUploaded by as many.  (YoutubeUploadRequest
\* reads as many from its file, taken to have the size it announced.)
Worker_HandleUpload(r, fillSize) ==
    m_bytesUploaded' = [m_bytesUploaded EXCEPT
                           ![r] = @ + NCopy(Worker_GetUploadSize(r), @, fillSize)]

\* HttpClient_WorkerThread_ReadCallback: the engine asks the session's read
\* function for the body of a POST or of an upload (CURLOPT_UPLOAD, line
\* 143) while it has less than the announced size; this callback is the one
\* asked once a POST has set it (line 165).  Until then the body comes from
\* the engine's own fread of its input stream, which touches no request.
W_ReadCallback(w, fillSize) ==
    /\ thread[w] = "perform"
    /\ curl[w].phase # "aborted"
    /\ GetMethod(pRequest[w]) \in {"POST", "PUT"}
    /\ curl[w].readfunction = "ReadCallback"
    /\ m_bytesUploaded[pRequest[w]] < Worker_GetUploadSize(pRequest[w])
    /\ IF cancelAndQuit[w]
       THEN /\ curl' = [curl EXCEPT ![w].phase = "aborted"]
            /\ UNCHANGED m_bytesUploaded
       ELSE /\ Worker_HandleUpload(pRequest[w], fillSize)
            /\ UNCHANGED curl
    /\ UNCHANGED << NUM_WORKERS, client, tdIndex, tdPhase, m_pendingRequests,
                    m_pendingCallbacks, cbInfo, callCount, queueLog, startLog,
                    idleAtTeardown, kind, enc, post, m_progress, m_url,
                    m_activeDownloads, returned >>
    /\ UNCHANGED << status, pRequest, cancelAndQuit, responseHeadersDone,
                    pResponseHeaders, result, responseStatusCode, thread, woken,
                    assertFailed >>
    /\ UNCHANGED requestVars

\* HttpRequest::Worker_UpdateProgress
Worker_UpdateProgress(r, dlnow, ulnow) ==
    m_progress' = [m_progress EXCEPT ![r] = [dlnow |-> dlnow, ulnow |-> ulnow]]

W_ProgressCallbackMut(w) ==
    /\ thread[w] = "perform"
    /\ curl[w].phase # "aborted"
    /\ Worker_UpdateProgress(pRequest[w], curl[w].nbody, m_bytesUploaded[pRequest[w]])
    /\ UNCHANGED curl
    /\ UNCHANGED << NUM_WORKERS, client, tdIndex, tdPhase, m_pendingRequests,
                    m_pendingCallbacks, cbInfo, callCount, queueLog, startLog,
                    idleAtTeardown, kind, enc, post, m_bytesUploaded, m_url,
                    m_activeDownloads, returned >>
    /\ UNCHANGED << status, pRequest, cancelAndQuit, responseHeadersDone,
                    pResponseHeaders, result, responseStatusCode, thread, woken,
                    assertFailed >>
    /\ UNCHANGED requestVars

\* HttpClient_WorkerThread_ProgressCallback: the engine reports the bytes
\* received and sent so far in this transfer; set for every request.
W_ProgressCallback(w) ==
    /\ thread[w] = "perform"
    /\ curl[w].phase # "aborted"
    /\ IF cancelAndQuit[w]
       THEN /\ curl' = [curl EXCEPT ![w].phase = "aborted"]
            /\ UNCHANGED m_progress
       ELSE /\ Worker_UpdateProgress(pRequest[w], curl[w].nbody,
                                     m_bytesUploaded[pRequest[w]])
            /\ UNCHANGED curl
    /\ UNCHANGED << NUM_WORKERS, client, tdIndex, tdPhase, m_pendingRequests,
                    m_pendingCallbacks, cbInfo, callCount, queueLog, startLog,
                    idleAtTeardown, kind, enc, post, m_bytesUploaded, m_url,
                    m_activeDownloads, returned >>
    /\ UNCHANGED << status, pRequest, cancelAndQuit, responseHeadersDone,
                    pResponseHeaders, result, responseStatusCode, thread, woken,
                    assertFailed >>
    /\ UNCHANGED requestVars

\* The client seen from its transfers: requests queued without a callback,
\* Update, the destructor, and the worker threads with all four transport
\* callbacks.
TransferNext ==
    \/ \E r \in Requests : QueueRequest(r, "null")
    \/ Update(TRUE)
    \/ \E w \in Workers : WorkerStep(w)
    \/ TeardownStep
    \/ \E w \in Workers, fillSize \in 1 .. MaxUpload : W_ReadCallback(w, fillSize)
    \/ \E w \in Workers : W_ProgressCallback(w)

TransferSpec == Init /\ [][TransferNext]_vars

\* A step of worker w that is one of its transport callbacks.
TransportCallback(w) ==
    \/ \E line \in StatusLines \cup KeyLines \cup {EndLine} : W_HeaderCallback(w, line)
    \/ \E b \in Bytes : W_WriteCallback(w, b)
    \/ \E fillSize \in 1 .. MaxUpload : W_ReadCallback(w, fillSize)
    \/ W_ProgressCallback(w)

\* C30: a worker's cancelAndQuit flag, once set, stays set, and a write,
\* read, header or progress callback that begins with the flag set makes the
\* transfer abort and leaves alone what Worker_HandleData (the response
\* buffer, the temporary file), Worker_HandleUpload (m_bytesUploaded) and
\* Worker_UpdateProgress (the progress members) write, and the header
\* scratch list.
C30_AbortOnCancel ==
    [][\A w \in Workers :
          /\ cancelAndQuit[w] => cancelAndQuit'[w]
          /\ (cancelAndQuit[w] /\ TransportCallback(w)) =>
                 /\ curl'[w].phase = "aborted"
                 /\ UNCHANGED << m_workerResponseBuffer, tmpFile, m_bytesUploaded,
                                 m_progress, pResponseHeaders >>]_vars

\* A POST transfer cut short by a callback that found the flag set, after
\* part of the response had come in.
C30_Witness ==
    \E w \in Workers :
        /\ cancelAndQuit[w]
        /\ thread[w] = "perform"
        /\ pRequest[w] # None
        /\ kind[pRequest[w]] = "Post"
        /\ curl[w].phase = "aborted"
        /\ curl[w].code # 0

\* ------------------------------------------------------ uploads by PUT
\* The client of an application that uploads, with all four callbacks.
UploadInit == InitWith(UploadRequests) /\ enc = NoEncoding /\ post = NoPost

\* The client at work on uploads: requests queued, Update, and the worker
\* threads with the read callback.
UploadNext ==
    \/ \E r \in Requests : QueueRequest(r, "null")
    \/ Update(TRUE)
    \/ \E w \in Workers : WorkerStep(w)
    \/ \E w \in Workers, fillSize \in 1 .. MaxUpload : W_ReadCallback(w, fillSize)

UploadSpec == UploadInit /\ [][UploadNext]_vars

\* C31: while a worker performs a POST or PUT request, its session's read
\* function is the read callback (which forwards to the Worker_HandleUpload
\* of the worker's current request), whatever the session handled before.
C31_UploadWired ==
    \A w \in Workers :
        (/\ thread[w] = "perform"
         /\ GetMethod(pRequest[w]) \in {"POST", "PUT"})
        => curl[w].readfunction = "ReadCallback"

\* C32: a request's status and response-header map change only in a step of
\* QueueRequest, Cancel or Update: no step of a worker thread (and none of
\* the destructor) changes them, so what the application observes between
\* two such calls is constant while the transfer goes on or finishes.
C32_CoordinatorWrites ==
    [][(m_status' # m_status \/ m_responseHeaders' # m_responseHeaders) =>
           \/ \E r \in Requests, cbKind \in {"null", "alive"} : QueueRequest(r, cbKind)
           \/ \E r \in Requests : Cancel(r)
           \/ \E spawnOk \in BOOLEAN : Update(spawnOk)]_vars

\* A transfer that has finished on its worker thread, headers and all, while
\* the request still shows SENDING: no Update has run since.
C32_Witness ==
    \E w \in Workers :
        /\ thread[w] = "waitDone"
        /\ status[w] = "DONE"
        /\ responseHeadersDone[w]
        /\ result[w] = CURLE_OK
        /\ pRequest[w] # None
        /\ m_status[pRequest[w]] = "SENDING"
        /\ m_responseHeaders[pRequest[w]] = {}

\* C33: a worker's pRequest changes only in a step of Update, and only when
\* the worker's status, as that Update finds it, is UNUSED or READY; no step
\* of the worker thread changes it, and it does not change while the status
\* is ACTIVE, DONE or CLEANUP.  This is for as long as the worker exists:
\* the destructor's delete[] m_workers, after every thread was joined, ends
\* the workers and with them their references.
C33_RequestSlot ==
    [][\A w \in Workers :
          (pRequest'[w] # pRequest[w] /\ client' # "destroyed") =>
              /\ status[w] \in {"UNUSED", "READY"}
              /\ \E spawnOk \in BOOLEAN : Update(spawnOk)]_vars

\* A worker that was handed its second request while it slept in READY: the
\* slot was cleared and assigned again, and the thread has not yet looked.
C33_Witness ==
    \E w \in Workers :
        /\ status[w] = "ACTIVE"
        /\ thread[w] \in {"waitReady", "yieldReady"}
        /\ pRequest[w] # None
        /\ Len(startLog) = 2

\* C34: the worker thread's two assertions never fail: it leaves its DONE
\* wait only with status CLEANUP, and its READY loop only with status ACTIVE
\* or with cancelAndQuit set.
C34_WorkerAsserts ==
    assertFailed \cap {"Worker.CLEANUP", "Worker.ACTIVE"} = {}

\* C35: none of the dispatcher's state assertions fails in a run of
\* QueueRequest, Cancel and Update: CompileRequest finds BUILDING,
\* HandleRequestStart PENDING, HandleResponseHeaders SENDING, HandleResponse
\* HEADERS, a popped request that is not PENDING is CANCELLED, and a free
\* worker that is not UNUSED is READY.
C35_DispatcherAsserts ==
    assertFailed \cap {"CompileRequest", "HandleRequestStart",
                       "HandleResponseHeaders", "HandleResponse",
                       "Update.CANCELLED", "Update.READY"} = {}

\* ------------------------------------------ HttpPost::Worker_HandleUpload
PostBytes == {"a", "="}
PostBodies == UNION { [1 .. n -> PostBytes] : n \in 0 .. MaxPostData }

\* memcpy(pData, m_postData.c_str() + offset, n): the n bytes after offset;
\* c_str() ends in a NUL, written 0 here.
Copied(data, offset, n) ==
    [i \in 1 .. n |-> IF offset + i <= Len(data) THEN data[offset + i] ELSE 0]

\* An HttpPost whose CompileRequest has made any body over PostBytes.
HandleUploadInit ==
    /\ InitWith(AppRequests)
    /\ enc = NoEncoding
    /\ \E body \in PostBodies : post = [NoPost EXCEPT !.m_postData = body]

\* One call of HttpPost::Worker_HandleUpload(pData, fillSize)
HandleUploadCall(fillSize) ==
    /\ post.calls < MaxCalls
    /\ LET ncopy == NCopy(Len(post.m_postData), post.m_bytesUploaded, fillSize)
       IN  post' = [post EXCEPT
                       !.m_bytesUploaded = @ + ncopy,
                       !.out = @ \o Copied(post.m_postData, post.m_bytesUploaded, ncopy),
                       !.calls = @ + 1,
                       !.fillSize = fillSize,
                       !.offset = post.m_bytesUploaded,
                       !.ncopy = ncopy]
    /\ UNCHANGED << NUM_WORKERS, client, tdIndex, tdPhase, m_pendingRequests,
                    m_pendingCallbacks, cbInfo, callCount, queueLog, startLog,
                    idleAtTeardown, kind, enc, m_bytesUploaded, m_progress, m_url,
                    m_activeDownloads, returned, assertFailed >>
    /\ UNCHANGED requestVars
    /\ UNCHANGED workerVars

HandleUploadSpec ==
    HandleUploadInit /\ [][\E fillSize \in 1 .. MaxFill : HandleUploadCall(fillSize)]_vars

\* C36: after any sequence of Worker_HandleUpload calls with positive buffer
\* sizes on a compiled body of length L, what was handed out, in order, is
\* the first m_bytesUploaded bytes of the body, m_bytesUploaded <= L, the
\* last call returned min(what was left, fillSize), and a call made when
\* nothing was left returned 0.
C36_UploadChunks ==
    LET L == Len(post.m_postData)
    IN  /\ post.m_bytesUploaded <= L
        /\ post.out = SubSeq(post.m_postData, 1, Min(post.m_bytesUploaded, L))
        /\ Len(post.out) = post.m_bytesUploaded
        /\ post.calls > 0 =>
               /\ post.ncopy = Min(L - post.offset, post.fillSize)
               /\ post.m_bytesUploaded = post.offset + post.ncopy
               /\ post.offset = L => post.ncopy = 0

\* A body handed out in more than one chunk, and then a further call that
\* found nothing left.
C36_Witness ==
    /\ Len(post.m_postData) = MaxPostData
    /\ post.calls >= 3
    /\ post.offset = Len(post.m_postData)
    /\ post.ncopy = 0
    /\ post.out = post.m_postData

\* C37: a request becomes DONE only in an Update that finds it on a worker
\* whose thread exists (and so has run the transfer and Worker_HandleDone),
\* and no worker is left in DONE or CLEANUP without a thread to take it on:
\* a failed pthread_create leaves neither behind.
C37_DoneByWorker ==
    /\ [][\A r \in Requests :
             (m_status[r] # "DONE" /\ m_status'[r] = "DONE") =>
                 \E w \in Pool : pRequest[w] = r /\ thread[w] # "none"]_vars
    /\ [](\A w \in Pool : status[w] \in {"DONE", "CLEANUP"} => thread[w] # "none")

\* ---------------------------------------- downloads answered with 204
\* The downloader with a server that also answers 204.
CodesNext ==
    \/ DownloaderNext
    \/ \E w \in Workers, line \in OtherStatusLines : W_HeaderCallback(w, line)

CodesSpec == DownloaderInit /\ [][CodesNext]_vars

\* C38: when the worker ends a download by deleting its temporary file
\* rather than renaming it to the destination, the transfer is one that
\* Update will not end in DONE (it failed, or its status code is 400 or
\* more): no download is DONE with its received body thrown away.
C38_DoneKeepsBody ==
    [][\A w \in Pool :
          (/\ thread[w] = "perform" /\ thread'[w] = "waitDone"
           /\ kind[pRequest[w]] = "Download"
           /\ tmpFile[pRequest[w]] # NoFile
           /\ destFile'[pRequest[w]] = destFile[pRequest[w]])
          => ~Success(result'[w], responseStatusCode'[w])]_vars

\* C39: when Update returns, m_pendingCallbacks holds no pair whose request
\* is DONE, ERROR or CANCELLED and no longer in m_pendingRequests.
C39_NoStalePairs ==
    [][(\E spawnOk \in BOOLEAN : Update(spawnOk)) =>
          \A i \in DOMAIN m_pendingCallbacks' :
              m_status'[m_pendingCallbacks'[i].req] \in {"DONE", "ERROR", "CANCELLED"}
                  => \E j \in DOMAIN m_pendingRequests' :
                         m_pendingRequests'[j] = m_pendingCallbacks'[i].req]_vars

====
